---- MODULE Spec2Model ----
(***************************************************************************)
(* A model of sftp-to-papertrail (src/index.js): the Lambda handler that   *)
(* fetches the stored copy of a log file from S3 and the latest copy over  *)
(* SFTP, selects the new lines with compareLogFiles, stores the latest     *)
(* copy and sends the new lines to Papertrail.                             *)
(*                                                                         *)
(* Text is a sequence of one-character strings.  Every action is one event *)
(* of the Node event loop (an invocation, or the completion callback of an *)
(* external operation) together with the whole chain of promise reactions  *)
(* that runs before the next event is taken.                               *)
(***************************************************************************)
EXTENDS Integers, Sequences, FiniteSets, TLC

\* ------------------------------------------------------------------------
\* Bounds of the model.
\* ------------------------------------------------------------------------
MaxOldLen == 2
MaxNewLen == 4
MaxRuns   == 3

\* ------------------------------------------------------------------------
\* Text.
\* ------------------------------------------------------------------------
NL == "\n"
SP == " "
Chars == {"a", "b", SP, NL}

\* JavaScript's undefined: what getLogFileStore resolves with on an error.
Absent == <<"undefined">>

Range(s) == {s[i] : i \in 1..Len(s)}

\* All texts of at most n characters.
TextsUpTo(n) == UNION {[1..k -> Chars] : k \in 0..n}

\* Characters removed by String.prototype.trim.
IsWhiteSpace(c) == c \in {SP, NL}

RECURSIVE trimStart(_)
trimStart(s) ==
  IF s = <<>> THEN <<>>
  ELSE IF IsWhiteSpace(Head(s)) THEN trimStart(Tail(s))
  ELSE s

RECURSIVE trimEnd(_)
trimEnd(s) ==
  IF s = <<>> THEN <<>>
  ELSE IF IsWhiteSpace(s[Len(s)]) THEN trimEnd(SubSeq(s, 1, Len(s) - 1))
  ELSE s

\* String.prototype.trim
trim(s) == trimEnd(trimStart(s))

\* String.prototype.split( '\n' ): always at least one (possibly empty) piece.
RECURSIVE splitFrom(_, _)
splitFrom(s, cur) ==
  IF s = <<>> THEN <<cur>>
  ELSE IF Head(s) = NL THEN <<cur>> \o splitFrom(Tail(s), <<>>)
  ELSE splitFrom(Tail(s), Append(cur, Head(s)))

split(s) == splitFrom(s, <<>>)

\* Array.prototype.join( '\n' )
RECURSIVE join(_)
join(lines) ==
  IF lines = <<>> THEN <<>>
  ELSE IF Len(lines) = 1 THEN lines[1]
  ELSE lines[1] \o <<NL>> \o join(Tail(lines))

\* Array.prototype.join( '' ) over the chunks of a stream.
RECURSIVE joinChunks(_)
joinChunks(chunks) ==
  IF chunks = <<>> THEN <<>> ELSE Head(chunks) \o joinChunks(Tail(chunks))

\* Array.prototype.indexOf: the first 0-based position of line, or -1.
indexOf(lines, line) ==
  IF \E i \in 1..Len(lines) : lines[i] = line
  THEN (CHOOSE i \in 1..Len(lines) :
          lines[i] = line /\ \A j \in 1..(i - 1) : lines[j] # line) - 1
  ELSE -1

\* The filter( () => true ) of compareLogFiles: keeps every line.
keepAll(lines) == SelectSeq(lines, LAMBDA line : TRUE)

\* JavaScript truthiness of a value that is a string or undefined.
Truthy(v) == v # Absent /\ v # <<>>

\* Mutation of compareLogFiles: without an old log file everything is new.
compareLogFilesAll(oldContents, newContents) ==
  IF ~Truthy(oldContents) THEN newContents
  ELSE LET oldLines == keepAll(split(oldContents))
           newLines == keepAll(split(newContents))
           difference == SelectSeq(newLines, LAMBDA line : 0 > indexOf(oldLines, line))
       IN  trim(join(difference))

\* Mutation of compareLogFiles: a positional diff, the lines of the new file
\* after as many lines as the old file has.
compareLogFilesSuffix(oldContents, newContents) ==
  IF ~Truthy(oldContents) THEN <<>>
  ELSE LET oldLines == keepAll(split(oldContents))
           newLines == keepAll(split(newContents))
           difference == IF Len(newLines) > Len(oldLines)
                         THEN SubSeq(newLines, Len(oldLines) + 1, Len(newLines))
                         ELSE <<>>
       IN  trim(join(difference))

\* Mutation of compareLogFiles: the comparison is inverted, the lines of the
\* new file that the old file has too are selected.
compareLogFilesCommon(oldContents, newContents) ==
  IF ~Truthy(oldContents) THEN <<>>
  ELSE LET oldLines == keepAll(split(oldContents))
           newLines == keepAll(split(newContents))
           difference == SelectSeq(newLines, LAMBDA line : 0 <= indexOf(oldLines, line))
       IN  trim(join(difference))

compareLogFiles(oldContents, newContents) ==
  IF ~Truthy(oldContents) THEN <<>>
  ELSE LET oldLines == keepAll(split(oldContents))
           newLines == keepAll(split(newContents))
           difference == SelectSeq(newLines, LAMBDA line : 0 > indexOf(oldLines, line))
       IN  trim(join(difference))


\* ------------------------------------------------------------------------
\* State.
\* ------------------------------------------------------------------------
VARIABLES
  isLambda,     \* process.env.AWS_EXECUTION_ENV is set
  s3,           \* the module-level S3 client: 0 is undefined, else its number
  s3Created,    \* how many S3 clients this process has constructed
  store,        \* the object in the S3 bucket: Absent or its text
  remote,       \* the log file on the SFTP server
  runs,         \* invocations of the handler so far
  storeGet,     \* promise of getLogFileStore
  latest,       \* position of getLogFileLatest, ending in the state of its promise
  fault,        \* the external failure that hit getLogFileLatest in this run
  chunks,       \* chunks received from the read stream
  session,      \* the SFTP session of this run's client
  allGet,       \* Promise.all( getResult )
  data,         \* data[ OLD ], data[ NEW ]
  newLogLines,  \* result of compareLogFiles in the handler
  saveP,        \* promise of saveToStore
  sendP,        \* promise of sendToPapertrail
  papertrail,   \* the winston Papertrail transport of this run
  ptError,      \* the transport has emitted 'error'
  allSend,      \* Promise.all( sendResult )
  calls,        \* arguments of the invocations of callback, in order
  transmitted,  \* lines passed to logger.info in this run
  storeAtStart, \* history: the stored object when the run was invoked
  delivered,    \* history: lines transmitted and in the remote file ever since
  resent,       \* history: lines transmitted again although delivered before
  undelivered,  \* history: lines selected, not transmitted, still in the remote file
  dropped,      \* history: undelivered lines that a later diff did not select
  oldContents,  \* argument of a direct call of the exported compareLogFiles
  newContents,  \* argument of a direct call of the exported compareLogFiles
  result,       \* what that call returned
  compared      \* that call has returned

procVars  == <<isLambda, s3, s3Created>>
getVars   == <<storeGet, latest, fault, chunks, session, allGet, data>>
sendVars  == <<newLogLines, saveP, sendP, papertrail, ptError, allSend, transmitted>>
histVars  == <<storeAtStart, delivered, resent, undelivered, dropped>>
pureVars  == <<oldContents, newContents, result, compared>>
vars == <<isLambda, s3, s3Created, store, remote, runs, storeGet, latest, fault,
          chunks, session, allGet, data, newLogLines, saveP, sendP, papertrail,
          ptError, allSend, calls, transmitted, storeAtStart, delivered, resent,
          undelivered, dropped, oldContents, newContents, result, compared>>

OLD == 0
NEW_ == 1  \* NEW in the source, a reserved word here

\* The log files the SFTP server is given in the model.
RemoteTexts ==
  { <<>>,
    <<"a">>,
    <<"b">>,
    <<"a", NL, "b">>,
    <<"a", NL, "b", NL>>,
    <<"a", NL, SP, "b">> }

\* The lines a diff result stands for: none when it is the empty string.
LinesOf(text) == IF text = <<>> THEN {} ELSE Range(split(text))

\* ------------------------------------------------------------------------
\* Promises.
\* ------------------------------------------------------------------------
\* Mutation of PromiseAll: waits for every member before settling.
PromiseAllSettled(states) ==
  IF \E i \in 1..Len(states) : states[i] = "pending" THEN "pending"
  ELSE IF \E i \in 1..Len(states) : states[i] = "rejected" THEN "rejected"
  ELSE "resolved"

\* Mutation of PromiseAll: settles with the first member that settles.
PromiseRace(states) ==
  IF \E i \in 1..Len(states) : states[i] = "resolved" THEN "resolved"
  ELSE IF \E i \in 1..Len(states) : states[i] = "rejected" THEN "rejected"
  ELSE "pending"

\* Promise.all: rejected as soon as one member is, resolved once all are.
PromiseAll(states) ==
  IF \E i \in 1..Len(states) : states[i] = "rejected" THEN "rejected"
  ELSE IF \A i \in 1..Len(states) : states[i] = "resolved" THEN "resolved"
  ELSE "pending"

\* Mutation of sendResult: the promise of saveToStore is not pushed.
sendResultSendOnly(save, send) == IF send = "none" THEN <<>> ELSE <<send>>

\* sendResult: the promises the handler pushed, in order.
sendResult(save, send) ==
  (IF save = "none" THEN <<>> ELSE <<save>>) \o (IF send = "none" THEN <<>> ELSE <<send>>)

\* Mutation of getLogFileStoreSettle: an S3 error rejects the promise.
getLogFileStoreRejects(error, body) ==
  IF error THEN [state |-> "rejected", value |-> Absent]
  ELSE [state |-> "resolved", value |-> body]

\* The s3.getObject callback of getLogFileStore: resolve() on an error, else
\* resolve( decoder.write( data.Body ) ).
getLogFileStoreSettle(error, body) ==
  IF error THEN [state |-> "resolved", value |-> Absent]
  ELSE [state |-> "resolved", value |-> body]

\* Mutation of decryptSettle: the error of kms.decrypt is swallowed.
decryptSwallows(error) == "resolved"

\* The kms.decrypt callback of decrypt.
decryptSettle(error) == IF error THEN "rejected" ELSE "resolved"


\* The state of the promise getLogFileLatest returned, from its position.
LatestPromise(l) == IF l \in {"resolved", "rejected"} THEN l ELSE "pending"

\* ------------------------------------------------------------------------
\* The handler.
\* ------------------------------------------------------------------------
Init ==
  /\ isLambda \in BOOLEAN
  /\ s3 = 0
  /\ s3Created = 0
  /\ store = Absent
  /\ remote \in RemoteTexts
  /\ runs = 0
  /\ storeGet = "none"
  /\ latest = "none"
  /\ fault = "none"
  /\ chunks = <<>>
  /\ session = "none"
  /\ allGet = "none"
  /\ data = [i \in {OLD, NEW_} |-> Absent]
  /\ newLogLines = <<>>
  /\ saveP = "none"
  /\ sendP = "none"
  /\ papertrail = "none"
  /\ ptError = FALSE
  /\ allSend = "none"
  /\ calls = <<>>
  /\ transmitted = <<>>
  /\ storeAtStart = Absent
  /\ delivered = {}
  /\ resent = {}
  /\ undelivered = {}
  /\ dropped = {}
  /\ oldContents = Absent
  /\ newContents = <<>>
  /\ result = <<>>
  /\ compared = FALSE

\* No invocation is running and nothing it issued is still in flight.
Idle ==
  \/ runs = 0
  \/ /\ calls # <<>>
     /\ storeGet # "pending"
     /\ latest \in {"resolved", "rejected"}
     /\ saveP # "pending"
     /\ sendP # "pending"

\* Mutation of connectToS3: a client is constructed at every use.
connectToS3Always ==
  /\ s3' = s3Created + 1
  /\ s3Created' = s3Created + 1

\* connectToS3, called where the code says  if ( ! s3 ) connectToS3( ... ).
connectToS3 ==
  /\ s3' = IF s3 = 0 THEN s3Created + 1 ELSE s3
  /\ s3Created' = IF s3 = 0 THEN s3Created + 1 ELSE s3Created

\* callback( null, result ) of the second then; when the callback throws, the
\* catch that follows invokes it again with what it threw.
callbackSuccess ==
  \E throws \in BOOLEAN :
    calls' = IF throws THEN calls \o <<"ok", "CallbackError">> ELSE Append(calls, "ok")

\* The first then of the handler: compare, then store and send as needed; the
\* second then follows at once when sendResult is empty.
ThenCompare(d) ==
  LET lines  == compareLogFiles(d[OLD], d[NEW_])
      doSave == Truthy(lines) \/ ~Truthy(d[OLD])
      doSend == Truthy(lines)
      save   == IF doSave THEN "pending" ELSE "none"
      send   == IF doSend THEN "pending" ELSE "none"
      all    == PromiseAll(sendResult(save, send))
  IN  /\ newLogLines' = lines
      /\ saveP' = save
      /\ IF doSave THEN connectToS3 ELSE UNCHANGED <<s3, s3Created>>
      /\ sendP' = send
      /\ papertrail' = IF doSend THEN "connecting" ELSE "none"
      /\ allSend' = all
      /\ IF all = "resolved" THEN callbackSuccess ELSE calls' = calls
      /\ IF d[OLD] = Absent
         THEN /\ undelivered' = {}
              /\ dropped' = dropped
         ELSE /\ dropped' = dropped \cup
                   {l \in undelivered : l \in Range(split(d[NEW_])) /\ l \notin LinesOf(lines)}
              /\ undelivered' = undelivered \cup (LinesOf(lines) \cap Range(split(remote)))
      /\ UNCHANGED <<ptError, transmitted>>

\* What follows when one of the promises of getResult settles: Promise.all
\* resolves into the first then, or rejects into the catch.
GetReaction(sg, lt, d, error) ==
  LET all == IF allGet = "pending" THEN PromiseAll(<<sg, LatestPromise(lt)>>) ELSE allGet
  IN  /\ allGet' = all
      /\ data' = d
      /\ IF allGet = "pending" /\ all = "resolved"
         THEN ThenCompare(d)
         ELSE /\ calls' = IF allGet = "pending" /\ all = "rejected"
                          THEN Append(calls, error) ELSE calls
              /\ UNCHANGED <<sendVars, s3, s3Created, undelivered, dropped>>

\* What follows when one of the promises of sendResult settles.
SendReaction(save, send, error) ==
  LET all == IF allSend = "pending" THEN PromiseAll(sendResult(save, send)) ELSE allSend
  IN  /\ allSend' = all
      /\ IF allSend = "pending" /\ all = "resolved" THEN callbackSuccess
         ELSE calls' = IF allSend = "pending" /\ all = "rejected"
                       THEN Append(calls, error) ELSE calls

\* exports.handler up to the point where it returns: both fetches are issued,
\* the store fetch first; outside Lambda decrypt resolves at once and the
\* connection is requested.
Invoke ==
  /\ Idle
  /\ runs < MaxRuns
  /\ runs' = runs + 1
  /\ connectToS3
  /\ storeGet' = "pending"
  /\ latest' = IF isLambda THEN "decrypt" ELSE "connect"
  /\ fault' = "none"
  /\ chunks' = <<>>
  /\ session' = "none"
  /\ allGet' = "pending"
  /\ data' = [i \in {OLD, NEW_} |-> Absent]
  /\ newLogLines' = <<>>
  /\ saveP' = "none"
  /\ sendP' = "none"
  /\ papertrail' = "none"
  /\ ptError' = FALSE
  /\ allSend' = "none"
  /\ calls' = <<>>
  /\ transmitted' = <<>>
  /\ storeAtStart' = store
  /\ UNCHANGED <<isLambda, store, remote, delivered, resent, undelivered, dropped, pureVars>>

\* The callback of s3.getObject in getLogFileStore.  A missing object is an
\* error; an existing one may still be unreadable.
StoreGetComplete(error) ==
  /\ storeGet = "pending"
  /\ store = Absent => error
  /\ LET settled == getLogFileStoreSettle(error, store)
     IN  /\ storeGet' = settled.state
         /\ GetReaction(settled.state, latest, [data EXCEPT ![OLD] = settled.value],
                        "StoreReadError")
  /\ UNCHANGED <<isLambda, store, remote, runs, latest, fault, chunks, session,
                 storeAtStart, delivered, resent, pureVars>>

\* The callback of kms.decrypt, and the then that requests the connection.
DecryptComplete(error) ==
  /\ latest = "decrypt"
  /\ fault' = IF error THEN "decrypt" ELSE fault
  /\ latest' = IF decryptSettle(error) = "rejected" THEN "rejected" ELSE "connect"
  /\ GetReaction(storeGet, latest', data, "DecryptError")
  /\ UNCHANGED <<isLambda, store, remote, runs, storeGet, chunks, session,
                 storeAtStart, delivered, resent, pureVars>>

\* client.connect settles; on success the file is requested.
ConnectComplete(error) ==
  /\ latest = "connect"
  /\ fault' = IF error THEN "connect" ELSE fault
  /\ latest' = IF error THEN "rejected" ELSE "get"
  /\ session' = IF error THEN session ELSE "open"
  /\ GetReaction(storeGet, latest', data, "ConnectError")
  /\ UNCHANGED <<isLambda, store, remote, runs, storeGet, chunks,
                 storeAtStart, delivered, resent, pureVars>>

\* client.get settles; on success the stream listeners are attached.
GetComplete(error) ==
  /\ latest = "get"
  /\ fault' = IF error THEN "get" ELSE fault
  /\ latest' = IF error THEN "rejected" ELSE "stream"
  /\ GetReaction(storeGet, latest', data, "GetError")
  /\ UNCHANGED <<isLambda, store, remote, runs, storeGet, chunks, session,
                 storeAtStart, delivered, resent, pureVars>>

\* stream 'data': the next k characters of the file arrive as one chunk.
StreamData(k) ==
  /\ latest = "stream"
  /\ LET got == Len(joinChunks(chunks))
     IN  /\ got + k <= Len(remote)
         /\ chunks' = Append(chunks, SubSeq(remote, got + 1, got + k))
  /\ UNCHANGED <<procVars, store, remote, runs, storeGet, latest, fault, session, allGet,
                 data, sendVars, calls, histVars, pureVars>>

\* stream 'end': join and trim the chunks, end the client, resolve.
StreamEnd ==
  /\ latest = "stream"
  /\ Len(joinChunks(chunks)) = Len(remote)
  /\ LET contents == trim(joinChunks(chunks))
     IN  /\ session' = "ended"
         /\ latest' = "resolved"
         /\ GetReaction(storeGet, "resolved", [data EXCEPT ![NEW_] = contents], "none")
  /\ UNCHANGED <<isLambda, store, remote, runs, storeGet, fault, chunks,
                 storeAtStart, delivered, resent, pureVars>>

\* stream 'error': no listener of getLogFileLatest settles its promise.
StreamError ==
  /\ latest = "stream"
  /\ latest' = "stalled"
  /\ fault' = "stream"
  /\ UNCHANGED <<procVars, store, remote, runs, storeGet, chunks, session, allGet,
                 data, sendVars, calls, histVars, pureVars>>

\* Mutation of SaveComplete: the new lines are stored, not the new log file.
SaveCompleteStoresLines(error) ==
  /\ saveP = "pending"
  /\ store' = IF error THEN store ELSE newLogLines
  /\ saveP' = IF error THEN "rejected" ELSE "resolved"
  /\ SendReaction(saveP', sendP, "StoreWriteError")
  /\ UNCHANGED <<procVars, remote, runs, getVars, newLogLines, sendP, papertrail,
                 ptError, transmitted, histVars, pureVars>>

\* The callback of s3.putObject in saveToStore.
SaveComplete(error) ==
  /\ saveP = "pending"
  /\ store' = IF error THEN store ELSE data[NEW_]
  /\ saveP' = IF error THEN "rejected" ELSE "resolved"
  /\ SendReaction(saveP', sendP, "StoreWriteError")
  /\ UNCHANGED <<procVars, remote, runs, getVars, newLogLines, sendP, papertrail,
                 ptError, transmitted, histVars, pureVars>>

\* papertrail 'connect': log every line, close the logger, resolve.
PapertrailConnect ==
  /\ papertrail = "connecting"
  /\ LET lines == split(newLogLines)
     IN  /\ transmitted' = transmitted \o lines
         /\ resent' = resent \cup (Range(lines) \cap delivered)
         /\ delivered' = delivered \cup (Range(lines) \cap Range(split(remote)))
         /\ undelivered' = undelivered \ Range(lines)
  /\ papertrail' = "closed"
  /\ sendP' = IF sendP = "pending" THEN "resolved" ELSE sendP
  /\ SendReaction(saveP, sendP', "none")
  /\ UNCHANGED <<procVars, store, remote, runs, getVars, newLogLines, saveP, ptError,
                 storeAtStart, dropped, pureVars>>

\* papertrail 'error': reject, which has no effect on a settled promise.
PapertrailError ==
  /\ papertrail \in {"connecting", "closed"}
  /\ ~ptError
  /\ ptError' = TRUE
  /\ sendP' = IF sendP = "pending" THEN "rejected" ELSE sendP
  /\ SendReaction(saveP, sendP', "ForwardError")
  /\ UNCHANGED <<procVars, store, remote, runs, getVars, newLogLines, saveP, papertrail,
                 transmitted, histVars, pureVars>>

\* Between invocations the log file on the server changes.
RemoteWrite(text) ==
  /\ Idle
  /\ runs < MaxRuns
  /\ text # remote
  /\ remote' = text
  /\ delivered' = delivered \cap Range(split(text))
  /\ undelivered' = undelivered \cap Range(split(text))
  /\ UNCHANGED <<procVars, store, runs, getVars, sendVars, calls, storeAtStart, resent,
                 dropped, pureVars>>

Next ==
  \/ Invoke
  \/ \E error \in BOOLEAN : StoreGetComplete(error)
  \/ \E error \in BOOLEAN : DecryptComplete(error)
  \/ \E error \in BOOLEAN : ConnectComplete(error)
  \/ \E error \in BOOLEAN : GetComplete(error)
  \/ \E k \in 1..MaxNewLen : StreamData(k)
  \/ StreamEnd
  \/ StreamError
  \/ \E error \in BOOLEAN : SaveComplete(error)
  \/ PapertrailConnect
  \/ PapertrailError
  \/ \E text \in RemoteTexts : RemoteWrite(text)

Spec == Init /\ [][Next]_vars

\* ------------------------------------------------------------------------
\* The exported compareLogFiles, called directly.
\* ------------------------------------------------------------------------
InitCompare ==
  /\ isLambda = FALSE
  /\ s3 = 0
  /\ s3Created = 0
  /\ store = Absent
  /\ remote = <<>>
  /\ runs = 0
  /\ storeGet = "none"
  /\ latest = "none"
  /\ fault = "none"
  /\ chunks = <<>>
  /\ session = "none"
  /\ allGet = "none"
  /\ data = [i \in {OLD, NEW_} |-> Absent]
  /\ newLogLines = <<>>
  /\ saveP = "none"
  /\ sendP = "none"
  /\ papertrail = "none"
  /\ ptError = FALSE
  /\ allSend = "none"
  /\ calls = <<>>
  /\ transmitted = <<>>
  /\ storeAtStart = Absent
  /\ delivered = {}
  /\ resent = {}
  /\ undelivered = {}
  /\ dropped = {}
  /\ oldContents \in TextsUpTo(MaxOldLen) \cup {Absent}
  /\ newContents \in TextsUpTo(MaxNewLen)
  /\ result = <<>>
  /\ compared = FALSE

Compare ==
  /\ ~compared
  /\ result' = compareLogFiles(oldContents, newContents)
  /\ compared' = TRUE
  /\ UNCHANGED <<procVars, store, remote, runs, getVars, sendVars, calls, histVars,
                 oldContents, newContents>>

NextCompare == Compare

SpecCompare == InitCompare /\ [][NextCompare]_vars


\* ------------------------------------------------------------------------
\* Properties.
\* ------------------------------------------------------------------------
\* The callback arguments that are errors of the remote fetch.
FetchErrorOf(f) ==
  CASE f = "decrypt" -> "DecryptError"
    [] f = "connect" -> "ConnectError"
    [] f = "get"     -> "GetError"
    [] OTHER         -> "StreamError"

\* The lines of new whose text is not a line of old, in the order of new.
Selected(old, new) == SelectSeq(split(new), LAMBDA line : line \notin Range(split(old)))

\* r is t without the white space at its two ends.
IsTrimOf(r, t) ==
  /\ r # <<>> => ~IsWhiteSpace(r[1]) /\ ~IsWhiteSpace(r[Len(r)])
  /\ \E i \in 0..Len(t) : \E j \in i..Len(t) :
       /\ r = SubSeq(t, i + 1, j)
       /\ \A k \in (1..i) \cup ((j + 1)..Len(t)) : IsWhiteSpace(t[k])

\* C1: once both fetches have resolved, a save is issued exactly when the diff
\* is non-empty or no old snapshot was obtained, and a send is issued exactly
\* when the diff is non-empty.
C1_DecisionRule ==
  allGet = "resolved" =>
    /\ (saveP # "none") <=> (newLogLines # <<>> \/ data[OLD] = Absent)
    /\ (sendP # "none") <=> (newLogLines # <<>>)

\* C2: while the stored snapshot is readable, no line that a diff selected and
\* that did not reach the collector is left out by the diff of a later run
\* while it is still in the remote file.
C2_NoLineDropped == dropped = {}

\* C3: no line is transmitted to the collector again in a later run while it
\* has stayed in the remote file since it was transmitted.
C3_NoLineResent == resent = {}

C5_FetchFailureReported ==
  fault # "none" =>
    /\ calls = <<FetchErrorOf(fault)>>
    /\ allGet # "resolved"
    /\ saveP = "none"
    /\ sendP = "none"
    /\ store = storeAtStart

\* C6: the store fetch never rejects; when it failed (resolved to Absent) and
\* the remote fetch succeeded, the run issues the save of the fetched contents,
\* sends nothing, and reports success once the save has succeeded.
C6_StoreFetchFailureIsAbsent ==
  /\ storeGet # "rejected"
  /\ (storeGet = "resolved" /\ data[OLD] = Absent /\ latest = "resolved") =>
       /\ saveP # "none"
       /\ sendP = "none"
       /\ transmitted = <<>>
       /\ saveP = "resolved" =>
            /\ store = data[NEW_]
            /\ calls # <<>>
            /\ Head(calls) = "ok"

C6_Witness ==
  /\ storeAtStart # Absent
  /\ storeGet = "resolved"
  /\ data[OLD] = Absent
  /\ data[NEW_] # <<>>
  /\ saveP = "resolved"
  /\ store = data[NEW_]
  /\ calls # <<>>
  /\ Head(calls) = "ok"

C8_AbsentSelectsNothing ==
  /\ \A new \in TextsUpTo(MaxOldLen) : compareLogFiles(Absent, new) = <<>>
  /\ (allGet = "resolved" /\ data[OLD] = Absent) =>
       /\ newLogLines = <<>>
       /\ sendP = "none"
       /\ papertrail = "none"
       /\ transmitted = <<>>

C8_Witness ==
  /\ allGet = "resolved"
  /\ data[OLD] = Absent
  /\ data[NEW_] = <<"a", NL, "b">>
  /\ saveP = "resolved"

\* C9 (as stated): when decrypting the password has failed, neither fetch was
\* started and nothing external was done.
C9_AbortsBeforeAnyFetch ==
  fault = "decrypt" =>
    /\ storeGet = "none"
    /\ session = "none"
    /\ saveP = "none"
    /\ sendP = "none"
    /\ store = storeAtStart

\* C9 (amended): when decrypting the password has failed, the run has reported
\* the decrypt error, the SFTP session was never opened, nothing was read from
\* the server, no save and no send was issued and the stored snapshot is
\* unchanged; the store fetch, which the handler issues first, was started.
C9_AbortsBeforeRemoteFetch ==
  fault = "decrypt" =>
    /\ storeGet # "none"
    /\ latest = "rejected"
    /\ calls = <<"DecryptError">>
    /\ session = "none"
    /\ chunks = <<>>
    /\ allGet = "rejected"
    /\ saveP = "none"
    /\ sendP = "none"
    /\ store = storeAtStart

C9_Witness ==
  /\ fault = "decrypt"
  /\ storeGet = "pending"
  /\ calls = <<"DecryptError">>

\* C10: once getLogFileLatest is over, by success or by a failure of the
\* connection, of the request or of the stream, its session is not left open.
C10_SessionReleased ==
  latest \in {"resolved", "rejected", "stalled"} => session # "open"


\* Nothing that the running invocation issued is still to signal.
NothingInFlight ==
  /\ runs > 0
  /\ storeGet # "pending"
  /\ latest \notin {"decrypt", "connect", "get", "stream"}
  /\ saveP # "pending"
  /\ sendP # "pending"
  /\ papertrail # "connecting" \/ ptError

\* C11: once every external operation of an invocation has signalled its
\* completion or its error, the invocation has reported an outcome through
\* the callback.
C11_OutcomeReported == NothingInFlight => calls # <<>>

\* C12: a failed save makes the run report a failure, also when the send of
\* the run succeeded; when there are new lines both the save and the send are
\* issued; the error reported is that of the first failure.
C12_SaveFailureReported ==
  /\ saveP = "rejected" =>
       /\ calls # <<>>
       /\ Head(calls) \in {"StoreWriteError", "ForwardError"}
       /\ "ok" \notin Range(calls)
       /\ (sendP # "rejected" => Head(calls) = "StoreWriteError")
  /\ (allGet = "resolved" /\ newLogLines # <<>>) => (saveP # "none" /\ sendP # "none")
  /\ (sendP = "rejected" /\ saveP \in {"pending", "resolved"}) =>
       (calls # <<>> /\ Head(calls) = "ForwardError")

C12_Witness ==
  /\ saveP = "rejected"
  /\ sendP = "resolved"
  /\ transmitted # <<>>
  /\ calls = <<"StoreWriteError">>

\* C13: compareLogFiles of a snapshot with itself is empty.
C13_SameIsEmpty ==
  (compared /\ oldContents = newContents) => result = <<>>

C13_Witness ==
  /\ compared
  /\ oldContents = newContents
  /\ oldContents = <<"a", NL>>
  /\ result = <<>>


\* C14: a stored snapshot that exists and is empty is not treated as absent:
\* when the remote file has lines they are selected and sent.
C14_EmptyIsNotAbsent ==
  (allGet = "resolved" /\ data[OLD] = <<>> /\ data[NEW_] # <<>>) =>
    /\ newLogLines # <<>>
    /\ LinesOf(newLogLines) = Range(Selected(<<>>, data[NEW_]))
    /\ sendP # "none"

C16_SavesWhatWasFetched ==
  /\ [](store = Absent \/ \E text \in RemoteTexts : store = trim(text))
  /\ [][store' # store =>
          /\ saveP = "pending"
          /\ saveP' = "resolved"
          /\ latest = "resolved"
          /\ store' = data[NEW_]
          /\ store' = trim(remote)]_vars

C16_Witness ==
  /\ storeAtStart # Absent
  /\ store # storeAtStart
  /\ saveP = "resolved"
  /\ store = data[NEW_]
  /\ newLogLines # <<>>
  /\ newLogLines # store

\* C17: when sendToPapertrail has rejected no line has been transmitted, and
\* what is transmitted is every line of the batch in the batch's order.
C17_NoPartialSuccess ==
  /\ sendP = "rejected" => transmitted = <<>>
  /\ transmitted # <<>> => (transmitted = split(newLogLines) /\ papertrail = "closed")

\* C18: a save or a send has only been issued when both the store fetch and
\* the remote fetch of the run have settled.
C18_FetchBarrier ==
  (saveP # "none" \/ sendP # "none" \/ papertrail # "none") =>
    /\ storeGet \in {"resolved", "rejected"}
    /\ latest \in {"resolved", "rejected"}
    /\ allGet = "resolved"

C18_Witness ==
  /\ storeGet = "resolved"
  /\ latest = "resolved"
  /\ saveP = "pending"
  /\ sendP = "pending"

\* C19: the process constructs at most one S3 client, on the first use, and
\* every later store operation uses that same client.
C19_OneClient ==
  /\ [](s3Created <= 1 /\ (runs > 0 => s3 = 1) /\ (runs = 0 => s3 = 0))
  /\ [][s3 # 0 => (s3' = s3 /\ s3Created' = s3Created)]_vars

C19_Witness ==
  /\ runs >= 2
  /\ s3 = 1
  /\ s3Created = 1
  /\ saveP = "resolved"

\* C20: the callback is invoked at most once in every invocation.
C20_CallbackAtMostOnce == Len(calls) <= 1

====
